---- MODULE Spec2Model ----
(***************************************************************************)
(* Model of the SafeTrust front-end slices:                                *)
(*   - Registration (src/features/auth/pages/Registration.tsx, quoted in   *)
(*     the implementation guide): the async submit handler onSubmit, the   *)
(*     isSubmitting state cell and the submit button rendered from it;     *)
(*   - PhoneInput (src/features/auth/components/PhoneInput/index.tsx): a   *)
(*     controlled select + input reporting raw edits through callbacks;    *)
(*   - PaidStateBidRequest (src/app/profile/bids/page.tsx): a stateless    *)
(*     composition of five imported components.                            *)
(*                                                                         *)
(* JavaScript is single threaded and runs a handler to completion up to    *)
(* its next await.  `running` names the onSubmit invocation whose          *)
(* synchronous segment is executing (0: the event loop is idle and may     *)
(* dispatch a user event or settle a promise).  Each statement of onSubmit *)
(* is one action, so that the order of its effects is observable, and no   *)
(* user event can interleave inside a synchronous segment.                 *)
(*                                                                         *)
(* The button is rendered from the isSubmitting cell whenever the cell is  *)
(* set: the commit that follows setIsSubmitting is taken to precede the    *)
(* next user event.                                                        *)
(***************************************************************************)
EXTENDS Integers, Sequences, FiniteSets, TLC

\* Number of submissions the form accepts in a run (caps the ids handed out).
MaxSubmissions == 2

\* Values a user can type into the credential fields.
Emails == {"a@x.io", "b@x.io"}
Passwords == {"pw1", "pw2"}

\* interface RegistrationForm: the six string fields handed to onSubmit.
RegistrationForm ==
    [fullName : {"Ana"}, phoneNumber : {"74812445"}, countryCode : {"+506"},
     location : {"CR"}, email : Emails, password : Passwords]

\* useForm<RegistrationForm>() with no defaultValues: every field starts empty.
EmptyForm ==
    [fullName |-> "", phoneNumber |-> "", countryCode |-> "",
     location |-> "", email |-> "", password |-> ""]

\* The firebase Auth instance imported from config/firebase.
auth == "auth"

\* The route the Registration page is mounted on, and the verification route.
RegistrationRoute == "/register"
VerifyEmailRoute == "/verify-email"

VARIABLES
    form,          \* react-hook-form field values currently entered
    isSubmitting,  \* useState(false) cell of Registration
    button,        \* the rendered submit button: [disabled, label]
    handlers,      \* id -> invocation of onSubmit: [pc, data, from, call, promise]
                   \*   pc: next statement; data: the values handed in;
                   \*   from: router location when it was invoked;
                   \*   call: state of its createUser promise;
                   \*   promise: state of the promise onSubmit returned
    running,       \* id of the invocation executing synchronously, or 0
    pending,       \* ids whose createUserWithEmailAndPassword call is unsettled
    calls,         \* sequence of calls made to createUserWithEmailAndPassword
    navs,          \* sequence of calls made to navigate
    location,      \* router location: [pathname, state]
    errorLog,      \* sequence of console.error calls
    accepted,      \* number of submit events handleSubmit passed to onSubmit
    errors,        \* formState.errors is non-empty (last validation failed)
    countryCode,   \* PhoneInput prop held by the parent
    phoneNumber,   \* PhoneInput prop held by the parent
    shown,         \* what PhoneInput displays: [countryCode, phoneNumber]
    lastEdit,      \* the last edit event delivered to PhoneInput
    cbLog,         \* callbacks PhoneInput invoked while handling lastEdit
    bidPage        \* last render output of PaidStateBidRequest

regVars == <<form, isSubmitting, button, handlers, running, pending, calls,
             navs, location, errorLog, accepted, errors>>
phoneVars == <<countryCode, phoneNumber, shown, lastEdit, cbLog>>
vars == <<regVars, phoneVars, bidPage>>

Ids == 1..MaxSubmissions
Started == DOMAIN handlers

----------------------------------------------------------------------------
\* Registration: the submit button (JSX lines 155-161).

RenderButton_stale(submitting) ==
    [disabled |-> FALSE, label |-> "Login"]

\* <button type="submit" disabled={isSubmitting}> {isSubmitting ? ... : ...}
RenderButton(submitting) ==
    [disabled |-> submitting,
     label |-> IF submitting THEN "Registering..." ELSE "Login"]

\* The user fills the form fields.
EditForm ==
    /\ running = 0
    /\ \E data \in RegistrationForm :
          /\ data # form
          /\ form' = data
    /\ UNCHANGED <<isSubmitting, button, handlers, running, pending, calls,
                   navs, location, errorLog, accepted, errors>>
    /\ UNCHANGED <<phoneVars, bidPage>>

\* <form onSubmit={handleSubmit(onSubmit)}>: a submit event can be dispatched
\* only while the submit button is not disabled; handleSubmit validates the
\* fields and, when they are valid, invokes onSubmit with their values.
SubmitAccepted ==
    /\ running = 0
    /\ ~button.disabled
    /\ Cardinality(Started) < MaxSubmissions
    /\ LET id == Cardinality(Started) + 1 IN
          /\ handlers' = [i \in Started \cup {id} |->
                            IF i = id
                            THEN [pc |-> "L130", data |-> form,
                                  from |-> location, call |-> "none",
                                  promise |-> "pending"]
                            ELSE handlers[i]]
          /\ running' = id
    /\ accepted' = accepted + 1
    /\ errors' = FALSE
    /\ UNCHANGED <<form, isSubmitting, button, pending, calls, navs,
                   location, errorLog>>
    /\ UNCHANGED <<phoneVars, bidPage>>

\* handleSubmit found the fields invalid: onSubmit is not invoked and
\* formState.errors is filled.
SubmitRejected ==
    /\ running = 0
    /\ ~button.disabled
    /\ errors' = TRUE
    /\ UNCHANGED <<form, isSubmitting, button, handlers, running, pending,
                   calls, navs, location, errorLog, accepted>>
    /\ UNCHANGED <<phoneVars, bidPage>>

\* The changes every statement of onSubmit makes to its own invocation record.
Goto(id, label) == [handlers EXCEPT ![id].pc = label]

\* line 130: setIsSubmitting(true)
SetIsSubmittingTrue_skipped(id) ==
    /\ running = id
    /\ handlers[id].pc = "L130"
    /\ handlers' = Goto(id, "L132")
    /\ UNCHANGED <<form, isSubmitting, button, running, pending, calls, navs,
                   location, errorLog, accepted, errors>>
    /\ UNCHANGED <<phoneVars, bidPage>>

SetIsSubmittingTrue(id) ==
    /\ running = id
    /\ handlers[id].pc = "L130"
    /\ isSubmitting' = TRUE
    /\ button' = RenderButton(TRUE)
    /\ handlers' = Goto(id, "L132")
    /\ UNCHANGED <<form, running, pending, calls, navs, location, errorLog,
                   accepted, errors>>
    /\ UNCHANGED <<phoneVars, bidPage>>

CreateUserArgs_fullName(data) == <<auth, data.fullName, data.password>>

\* line 132: the arguments of createUserWithEmailAndPassword(auth, email, password)
CreateUserArgs(data) == <<auth, data.email, data.password>>

\* line 132: the call is issued and onSubmit suspends at the await.
CallCreateUser(id) ==
    /\ running = id
    /\ handlers[id].pc = "L132"
    /\ calls' = Append(calls, [id |-> id, args |-> CreateUserArgs(handlers[id].data)])
    /\ pending' = pending \cup {id}
    /\ handlers' = [handlers EXCEPT ![id].pc = "await", ![id].call = "pending"]
    /\ running' = 0
    /\ UNCHANGED <<form, isSubmitting, button, navs, location, errorLog,
                   accepted, errors>>
    /\ UNCHANGED <<phoneVars, bidPage>>

\* line 132: the identity provider fulfils the promise; onSubmit resumes in try.
CreateUserResolves(id) ==
    /\ running = 0
    /\ id \in pending
    /\ pending' = pending \ {id}
    /\ handlers' = [handlers EXCEPT ![id].pc = "L133", ![id].call = "fulfilled"]
    /\ running' = id
    /\ UNCHANGED <<form, isSubmitting, button, calls, navs, location,
                   errorLog, accepted, errors>>
    /\ UNCHANGED <<phoneVars, bidPage>>

\* line 132: the identity provider rejects the promise; onSubmit resumes in catch.
CreateUserRejects(id) ==
    /\ running = 0
    /\ id \in pending
    /\ pending' = pending \ {id}
    /\ handlers' = [handlers EXCEPT ![id].pc = "L135", ![id].call = "rejected"]
    /\ running' = id
    /\ UNCHANGED <<form, isSubmitting, button, calls, navs, location,
                   errorLog, accepted, errors>>
    /\ UNCHANGED <<phoneVars, bidPage>>

NavigateCall_current(id) ==
    [id |-> id, to |-> VerifyEmailRoute, state |-> [email |-> form.email]]

\* line 133: the arguments of navigate('/verify-email', { state: { email } })
NavigateCall(id) ==
    [id |-> id, to |-> VerifyEmailRoute,
     state |-> [email |-> handlers[id].data.email]]

\* line 133: navigate(...)
Navigate(id) ==
    /\ running = id
    /\ handlers[id].pc = "L133"
    /\ navs' = Append(navs, NavigateCall(id))
    /\ location' = [pathname |-> NavigateCall(id).to,
                    state |-> NavigateCall(id).state]
    /\ handlers' = Goto(id, "L137")
    /\ UNCHANGED <<form, isSubmitting, button, running, pending, calls,
                   errorLog, accepted, errors>>
    /\ UNCHANGED <<phoneVars, bidPage>>

CatchError_navigates(id) ==
    /\ running = id
    /\ handlers[id].pc = "L135"
    /\ errorLog' = Append(errorLog, [id |-> id, msg |-> "Registration error:"])
    /\ navs' = Append(navs, NavigateCall(id))
    /\ location' = [pathname |-> NavigateCall(id).to,
                    state |-> NavigateCall(id).state]
    /\ handlers' = Goto(id, "L137")
    /\ UNCHANGED <<form, isSubmitting, button, running, pending, calls,
                   accepted, errors>>
    /\ UNCHANGED <<phoneVars, bidPage>>

CatchError_retries(id) ==
    /\ running = id
    /\ handlers[id].pc = "L135"
    /\ errorLog' = Append(errorLog, [id |-> id, msg |-> "Registration error:"])
    /\ calls' = Append(calls, [id |-> id, args |-> CreateUserArgs(handlers[id].data)])
    /\ pending' = pending \cup {id}
    /\ handlers' = [handlers EXCEPT ![id].pc = "await", ![id].call = "pending"]
    /\ running' = 0
    /\ UNCHANGED <<form, isSubmitting, button, navs, location, accepted, errors>>
    /\ UNCHANGED <<phoneVars, bidPage>>

\* lines 134-136: catch (error) { console.error('Registration error:', error) }
CatchError(id) ==
    /\ running = id
    /\ handlers[id].pc = "L135"
    /\ errorLog' = Append(errorLog, [id |-> id, msg |-> "Registration error:"])
    /\ handlers' = Goto(id, "L137")
    /\ UNCHANGED <<form, isSubmitting, button, running, pending, calls, navs,
                   location, accepted, errors>>
    /\ UNCHANGED <<phoneVars, bidPage>>

Finally_afterTryOnly(id) ==
    /\ running = id
    /\ handlers[id].pc = "L137"
    /\ isSubmitting' = (handlers[id].call = "rejected" /\ isSubmitting)
    /\ button' = RenderButton(isSubmitting')
    /\ handlers' = [handlers EXCEPT ![id].pc = "done",
                                    ![id].promise = "fulfilled"]
    /\ running' = 0
    /\ UNCHANGED <<form, pending, calls, navs, location, errorLog, accepted,
                   errors>>
    /\ UNCHANGED <<phoneVars, bidPage>>

\* lines 136-138: finally { setIsSubmitting(false) }; onSubmit's promise fulfils.
Finally(id) ==
    /\ running = id
    /\ handlers[id].pc = "L137"
    /\ isSubmitting' = FALSE
    /\ button' = RenderButton(FALSE)
    /\ handlers' = [handlers EXCEPT ![id].pc = "done",
                                    ![id].promise = "fulfilled"]
    /\ running' = 0
    /\ UNCHANGED <<form, pending, calls, navs, location, errorLog, accepted,
                   errors>>
    /\ UNCHANGED <<phoneVars, bidPage>>

\* const onSubmit = async (data) => { ... }: the next statement of invocation id.
onSubmit(id) ==
    \/ SetIsSubmittingTrue(id)
    \/ CallCreateUser(id)
    \/ Navigate(id)
    \/ CatchError(id)
    \/ Finally(id)

InitRegistration ==
    /\ form = EmptyForm
    /\ isSubmitting = FALSE
    /\ button = RenderButton(FALSE)
    /\ handlers = <<>>
    /\ running = 0
    /\ pending = {}
    /\ calls = <<>>
    /\ navs = <<>>
    /\ location = [pathname |-> RegistrationRoute, state |-> [email |-> ""]]
    /\ errorLog = <<>>
    /\ accepted = 0
    /\ errors = FALSE

----------------------------------------------------------------------------
\* PhoneInput: a controlled <select> and <input type="tel">.

\* <option value="+506">: the guide lists this one option; "+1" stands for the
\* rest of the preset list, so that the selection can change at all.
CountryCodeOptions == {"+506", "+1"}

\* What a user can leave in the tel field: any text, digits or not.
RawNumbers == {"", "7", "74812445", "7481-2445", "abc"}

NoEdit == [control |-> "none", value |-> ""]

SelectOnChange_other(value) == <<[cb |-> "onPhoneNumberChange", arg |-> value]>>

\* line 196: onChange={(e) => onCountryCodeChange(e.target.value)}
SelectOnChange(value) == <<[cb |-> "onCountryCodeChange", arg |-> value]>>

\* line 205: onChange={(e) => onPhoneNumberChange(e.target.value)}
InputOnChange(value) == <<[cb |-> "onPhoneNumberChange", arg |-> value]>>

\* lines 195 and 204: value={countryCode}, value={phoneNumber}
RenderPhoneInput(code, number) == [countryCode |-> code, phoneNumber |-> number]

\* The user picks an option of the select.  The parent's callback is not part
\* of PhoneInput: it either stores the reported value or leaves its state alone.
ChangeCountryCode ==
    \E value \in CountryCodeOptions, stored \in BOOLEAN :
        /\ value # shown.countryCode
        /\ lastEdit' = [control |-> "select", value |-> value]
        /\ cbLog' = SelectOnChange(value)
        /\ countryCode' = IF stored THEN value ELSE countryCode
        /\ shown' = RenderPhoneInput(countryCode', phoneNumber)
        /\ UNCHANGED <<phoneNumber, regVars, bidPage>>

ChangePhoneNumber_uncontrolled ==
    \E value \in RawNumbers, stored \in BOOLEAN :
        /\ value # shown.phoneNumber
        /\ lastEdit' = [control |-> "input", value |-> value]
        /\ cbLog' = InputOnChange(value)
        /\ phoneNumber' = IF stored THEN value ELSE phoneNumber
        /\ shown' = [RenderPhoneInput(countryCode, phoneNumber')
                        EXCEPT !.phoneNumber = value]
        /\ UNCHANGED <<countryCode, regVars, bidPage>>

\* The user edits the tel field.
ChangePhoneNumber ==
    \E value \in RawNumbers, stored \in BOOLEAN :
        /\ value # shown.phoneNumber
        /\ lastEdit' = [control |-> "input", value |-> value]
        /\ cbLog' = InputOnChange(value)
        /\ phoneNumber' = IF stored THEN value ELSE phoneNumber
        /\ shown' = RenderPhoneInput(countryCode, phoneNumber')
        /\ UNCHANGED <<countryCode, regVars, bidPage>>

InitPhoneInput ==
    /\ countryCode = "+506"
    /\ phoneNumber = ""
    /\ shown = RenderPhoneInput(countryCode, phoneNumber)
    /\ lastEdit = NoEdit
    /\ cbLog = <<>>

----------------------------------------------------------------------------
\* PaidStateBidRequest: the element tree one render returns.

\* Number of renders of the page followed in a run.
MaxRenders == 2

NoProps == {}
Class(c) == {<<"className", c>>}
El(type, props, children) == [type |-> type, props |-> props, children |-> children]
Text(t) == El("#text", {<<"nodeValue", t>>}, <<>>)

\* The five imports of page.tsx, lines 2-6.
Imported == {"MainHeader", "Header", "Details", "Notes", "Process"}

PaidStateBidRequest_swapped ==
    El("div", Class("w-full bg-gray-50 min-h-screen"), <<
        El("MainHeader", NoProps, <<>>),
        El("div", Class("px-10 py-8"), <<
            El("Header", NoProps, <<>>),
            El("div", Class("grid grid-cols-12 gap-6"), <<
                El("div", Class("col-span-8 bg-white shadow rounded p-4"), <<
                    El("h2", NoProps, <<Text("Details Section")>>),
                    El("Details", NoProps, <<>>) >>),
                El("div", Class("col-span-4"), <<
                    El("div", Class("bg-white shadow rounded p-4 mb-6"), <<
                        El("Process", NoProps, <<>>) >>),
                    El("div", Class("bg-white shadow rounded p-4"), <<
                        El("h3", Class("text-lg font-bold text-black"),
                           <<Text("Process")>>),
                        El("Notes", NoProps, <<>>) >>) >>) >>) >>) >>)

\* const PaidStateBidRequest: React.FC = () => { return ( ... ) }
PaidStateBidRequest ==
    El("div", Class("w-full bg-gray-50 min-h-screen"), <<
        El("MainHeader", NoProps, <<>>),
        El("div", Class("px-10 py-8"), <<
            El("Header", NoProps, <<>>),
            El("div", Class("grid grid-cols-12 gap-6"), <<
                El("div", Class("col-span-8 bg-white shadow rounded p-4"), <<
                    El("h2", NoProps, <<Text("Details Section")>>),
                    El("Details", NoProps, <<>>) >>),
                El("div", Class("col-span-4"), <<
                    El("div", Class("bg-white shadow rounded p-4 mb-6"), <<
                        El("Notes", NoProps, <<>>) >>),
                    El("div", Class("bg-white shadow rounded p-4"), <<
                        El("h3", Class("text-lg font-bold text-black"),
                           <<Text("Process")>>),
                        El("Process", NoProps, <<>>) >>) >>) >>) >>) >>)

\* React renders the page: the component function is called once more.
RenderBidPage ==
    /\ Len(bidPage) < MaxRenders
    /\ bidPage' = Append(bidPage, PaidStateBidRequest)
    /\ UNCHANGED <<regVars, phoneVars>>

\* The imported components of an element tree, in document order.
RECURSIVE ComponentsOf(_), ComponentsIn(_)
ComponentsOf(e) ==
    (IF e.type \in Imported THEN <<[type |-> e.type, props |-> e.props]>> ELSE <<>>)
        \o ComponentsIn(e.children)
ComponentsIn(es) ==
    IF es = <<>> THEN <<>> ELSE ComponentsOf(Head(es)) \o ComponentsIn(Tail(es))

----------------------------------------------------------------------------
Init ==
    /\ InitRegistration
    /\ InitPhoneInput
    /\ bidPage = <<>>

\* The Registration page under user events and the identity provider's answers.
Next ==
    \/ EditForm
    \/ SubmitAccepted
    \/ SubmitRejected
    \/ \E id \in Ids : SetIsSubmittingTrue(id)
    \/ \E id \in Ids : CallCreateUser(id)
    \/ \E id \in Ids : CreateUserResolves(id)
    \/ \E id \in Ids : CreateUserRejects(id)
    \/ \E id \in Ids : Navigate(id)
    \/ \E id \in Ids : CatchError(id)
    \/ \E id \in Ids : Finally(id)

Spec == Init /\ [][Next]_vars

\* A settled promise's continuation is run by the event loop, and a synchronous
\* segment of onSubmit runs to completion.
FairSpec ==
    Spec /\ \A id \in Ids : WF_vars(onSubmit(id))

\* The presentational components under user edits and renders.
NextComponents ==
    \/ ChangeCountryCode
    \/ ChangePhoneNumber
    \/ RenderBidPage

SpecComponents == Init /\ [][NextComponents]_vars

----------------------------------------------------------------------------
\* Properties of Registration.onSubmit.

CallsOf(id) == {i \in 1..Len(calls) : calls[i].id = id}
NavsOf(id) == {i \in 1..Len(navs) : navs[i].id = id}
ErrorsOf(id) == {i \in 1..Len(errorLog) : errorLog[i].id = id}
Issued(id) == handlers[id].pc \notin {"L130", "L132"}
Quiescent == running = 0

\* C1: every accepted submission makes exactly one create-account call (none
\* before line 132 has run, one ever after), and that call's arguments are the
\* auth handle, the email and the password handed to that submission; no other
\* field of the form is passed.
C1_OneCallWithEmailAndPassword ==
    \A id \in Started :
        /\ Cardinality(CallsOf(id)) = IF Issued(id) THEN 1 ELSE 0
        /\ \A i \in CallsOf(id) :
              /\ Len(calls[i].args) = 3
              /\ calls[i].args[1] = auth
              /\ calls[i].args[2] = handlers[id].data.email
              /\ calls[i].args[3] = handlers[id].data.password

C1_Witness ==
    \E id \in Started :
        /\ handlers[id].pc = "done"
        /\ handlers[id].data \in RegistrationForm
        /\ Cardinality(CallsOf(id)) = 1

\* C2: once the create-account call of a submission has succeeded and line 133
\* has run, navigate has been called exactly once for it, to '/verify-email',
\* with state.email equal to the email of that same submission; right after the
\* call the router is at that location.
C2_SuccessNavigatesWithEmail ==
    \A id \in Started :
        handlers[id].call = "fulfilled" =>
            /\ Cardinality(NavsOf(id)) = IF handlers[id].pc = "L133" THEN 0 ELSE 1
            /\ \A i \in NavsOf(id) :
                  /\ navs[i].to = VerifyEmailRoute
                  /\ navs[i].state = [email |-> handlers[id].data.email]
            /\ handlers[id].pc = "L137" =>
                  location = [pathname |-> VerifyEmailRoute,
                              state |-> [email |-> handlers[id].data.email]]

C2_Witness ==
    \E id \in Started :
        /\ handlers[id].call = "fulfilled"
        /\ handlers[id].pc = "done"
        /\ handlers[id].data.email \in Emails
        /\ form.email # handlers[id].data.email
        /\ Cardinality(NavsOf(id)) = 1

\* C3: a submission whose create-account call failed never navigates; while it
\* is handled, and after it has finished until the next submission starts, the
\* router location is the one the submission started from, and when it has
\* finished isSubmitting is false again.
C3_FailureNoNavigation ==
    \A id \in Started :
        handlers[id].call = "rejected" =>
            /\ NavsOf(id) = {}
            /\ id = Cardinality(Started) => location = handlers[id].from
            /\ (id = Cardinality(Started) /\ handlers[id].pc = "done") =>
                  (~isSubmitting /\ ~button.disabled)

C3_Witness ==
    \E id \in Started :
        /\ handlers[id].call = "rejected"
        /\ handlers[id].pc = "done"
        /\ id = Cardinality(Started)
        /\ ~isSubmitting

\* C4: from the moment line 130 has run until the create-account call has
\* settled (the call about to be issued, or outstanding), isSubmitting is true
\* and the submit button is rendered disabled.
C4_OutstandingImpliesSubmitting ==
    /\ \A id \in Started :
          handlers[id].pc \in {"L132", "await"} =>
              (isSubmitting /\ button.disabled /\ button.label = "Registering...")
    /\ pending # {} => (isSubmitting /\ button.disabled)
    /\ pending = {id \in Started : handlers[id].pc = "await"}

C4_Witness ==
    /\ pending # {}
    /\ running = 0
    /\ isSubmitting
    /\ button.disabled

\* C5: a failed create-account call is caught and logged exactly once, the call
\* is not issued again, the promise onSubmit returns never rejects, and at
\* every event boundary the number of create-account calls equals the number
\* of accepted submissions.
C5_FailureLoggedNotRetried ==
    /\ \A id \in Started :
          /\ Cardinality(ErrorsOf(id)) =
                IF handlers[id].call = "rejected" /\ handlers[id].pc # "L135"
                THEN 1 ELSE 0
          /\ Cardinality(CallsOf(id)) <= 1
          /\ handlers[id].promise # "rejected"
          /\ handlers[id].pc = "done" => handlers[id].promise = "fulfilled"
    /\ Quiescent => Len(calls) = accepted

C5_Witness ==
    /\ Quiescent
    /\ accepted = 2
    /\ Len(calls) = 2
    /\ \E id \in Started :
          /\ handlers[id].call = "rejected"
          /\ handlers[id].pc = "done"
          /\ Cardinality(ErrorsOf(id)) = 1

\* C9: at most one create-account call is outstanding at any time, and at most
\* one invocation of onSubmit is unfinished.
C9_AtMostOneOutstanding ==
    /\ Cardinality(pending) <= 1
    /\ Cardinality({id \in Started : handlers[id].pc # "done"}) <= 1

\* A call is outstanding, the user is at the form, and a further submission
\* would be accepted were the button enabled.
C9_Witness ==
    /\ Cardinality(pending) = 1
    /\ running = 0
    /\ Cardinality(Started) < MaxSubmissions
    /\ button.disabled

\* The create-account call of invocation id has settled and the continuation of
\* onSubmit has not finished yet.
SettledCall(id) ==
    /\ id \in Started
    /\ handlers[id].call \in {"fulfilled", "rejected"}
    /\ handlers[id].pc # "done"

\* C10: every submission whose create-account call has settled, fulfilled or
\* rejected, eventually finishes with isSubmitting false and the button
\* enabled; on the success path the flag is still set when line 133 is about
\* to navigate, and it is cleared only once the navigation has been made.
C10_SettledEventuallyNotSubmitting ==
    /\ \A id \in Ids :
          SettledCall(id) ~>
              (/\ id \in Started
               /\ handlers[id].pc = "done"
               /\ ~isSubmitting
               /\ ~button.disabled)
    /\ [](\A id \in Started : handlers[id].pc = "L133" => isSubmitting)
    /\ [][\A id \in Started :
            (handlers[id].call = "fulfilled" /\ isSubmitting /\ ~isSubmitting')
                => NavsOf(id) # {}]_vars

C10_Witness ==
    \E id \in Started :
        /\ handlers[id].call = "fulfilled"
        /\ handlers[id].pc = "done"
        /\ ~isSubmitting
        /\ NavsOf(id) # {}

----------------------------------------------------------------------------
\* Properties of PhoneInput.

\* C6: handling an edit of the select calls onCountryCodeChange exactly once,
\* handling an edit of the tel field calls onPhoneNumberChange exactly once,
\* each with the value the edit left in the control, and nothing else is called.
C6_EditCallsOwnCallbackWithRawValue ==
    /\ lastEdit.control = "none" => cbLog = <<>>
    /\ lastEdit.control = "select" =>
          cbLog = <<[cb |-> "onCountryCodeChange", arg |-> lastEdit.value]>>
    /\ lastEdit.control = "input" =>
          cbLog = <<[cb |-> "onPhoneNumberChange", arg |-> lastEdit.value]>>

C6_Witness ==
    /\ lastEdit = [control |-> "select", value |-> "+1"]
    /\ Len(cbLog) = 1
    /\ phoneNumber = "7481-2445"

\* C7: what PhoneInput displays is always the parent's countryCode and
\* phoneNumber, and a step changes what is displayed only if it changes the
\* parent's state.
C7_DisplayFollowsProps ==
    /\ [](shown.countryCode = countryCode /\ shown.phoneNumber = phoneNumber)
    /\ [][shown' # shown =>
            <<countryCode', phoneNumber'>> # <<countryCode, phoneNumber>>]_vars

\* The parent ignored the last edit: the field still shows the old prop.
C7_Witness ==
    /\ lastEdit.control = "input"
    /\ lastEdit.value = "abc"
    /\ shown.phoneNumber = "74812445"
    /\ phoneNumber = "74812445"

----------------------------------------------------------------------------
\* Properties of PaidStateBidRequest.

\* C8: every render returns the same tree, in which MainHeader, Header,
\* Details, Notes and Process each occur exactly once, in that order, with no
\* props.
C8_FixedComposition ==
    \A i \in 1..Len(bidPage) :
        /\ ComponentsOf(bidPage[i]) =
              << [type |-> "MainHeader", props |-> {}],
                 [type |-> "Header", props |-> {}],
                 [type |-> "Details", props |-> {}],
                 [type |-> "Notes", props |-> {}],
                 [type |-> "Process", props |-> {}] >>
        /\ bidPage[i] = bidPage[1]

\* The page has been rendered twice.
C8_Witness ==
    /\ Len(bidPage) >= 2
    /\ Len(ComponentsOf(bidPage[2])) = 5

====
